---- MODULE Spec2Model ----
(***************************************************************************)
(* PluginRegistry (metagraph/core/plugin_registry.py): classification of   *)
(* entities into six catalogs and discovery over a graph of modules, and   *)
(* PandasEdgeMap.compute_abstract_properties                               *)
(* (metagraph/plugins/pandas/types.py).                                    *)
(***************************************************************************)
EXTENDS Integers, Sequences, FiniteSets, TLC

VARIABLES
    plugins,        \* self.plugins: catalog name -> multiplicity of each object
    pc,             \* "idle" or "scan" (inside register_from_modules)
    queue,          \* sorted roots not yet started (the for loop of line 161)
    recurse,        \* the call's recurse argument
    stack,          \* activation records of _register_module
    seen_modules,   \* seen_modules of line 160
    entered,        \* how often _register_module was invoked per module, this call
    pre,            \* plugins when the current (or last) call started
    roots,          \* the modules of the current (or last) bulk call, as validated
    last,           \* the current (or last) call: operation, argument, outcome
    calls,          \* number of calls made on the registry
    pandas          \* a compute_abstract_properties call: its input and its result

vars == <<plugins, pc, queue, recurse, stack, seen_modules, entered, pre,
          roots, last, calls, pandas>>

----------------------------------------------------------------------------
(* Bounds *)

MaxCalls == 2
MaxRoots == 2

----------------------------------------------------------------------------
(* Strings are sequences of characters, so that prefix tests and counting  *)
(* dots are computed as Python computes them.                              *)

startswith(s, p) == Len(p) <= Len(s) /\ SubSeq(s, 1, Len(p)) = p

RECURSIVE count(_, _)
count(s, ch) ==
    IF s = <<>> THEN 0
    ELSE (IF Head(s) = ch THEN 1 ELSE 0) + count(Tail(s), ch)

----------------------------------------------------------------------------
(* The objects of the modelled process.                                    *)

Bases == {"AbstractType", "ConcreteType", "Wrapper"}
Markers == {"Translator", "AbstractAlgorithm", "ConcreteAlgorithm"}

Catalogs == {"abstract_types", "concrete_types", "wrappers", "translators",
             "abstract_algorithms", "concrete_algorithms"}

Modules == {"A", "AB", "AC", "AP", "A2", "G"}

Classes == {"AbstractType", "ConcreteType", "Wrapper", "Foo", "FooImpl",
            "FooWrap", "Ext", "Other", "Hidden", "Helper", "Both", "Meta"}
Instances == {"Tr", "Tr2", "Priv", "AbsAlg", "ConcAlg", "VERSION"}
Objects == Classes \cup Instances \cup Modules

\* x.__name__: the dotted name of a module, the plain name of a class
ModName == [m \in Modules \cup Classes |->
    CASE m = "A"  -> <<"a">>
      [] m = "AB" -> <<"a", ".", "b">>
      [] m = "AC" -> <<"a", ".", "c">>
      [] m = "AP" -> <<"a", ".", "_", "p">>
      [] m = "A2" -> <<"a", "2">>
      [] m = "G"  -> <<"g">>
      [] OTHER    -> <<m>>]

\* isinstance(obj, type)
IsClass(obj) == obj \in Classes

\* type(obj) is type: false for a class created by another metaclass
\* (Meta is declared as class Meta(AbstractType, metaclass=...))
TypeIsType(obj) == obj \in Classes \ {"Meta"}

\* inspect.ismodule(obj)
ismodule(obj) == obj \in Modules

\* the bases b for which issubclass(obj, b) holds
SuperBases == [c \in Classes |->
    CASE c \in Bases            -> {c}
      [] c \in {"Foo", "Ext", "Other", "Meta"} -> {"AbstractType"}
      [] c \in {"FooImpl", "Hidden"} -> {"ConcreteType"}
      [] c = "FooWrap"          -> {"Wrapper"}
      [] c = "Both"             -> {"AbstractType", "ConcreteType"}
      [] OTHER                  -> {}]

issubclass(obj, b) == IsClass(obj) /\ b \in SuperBases[obj]

\* the marker classes k for which isinstance(obj, k) holds
InstanceOf == [i \in Instances |->
    CASE i \in {"Tr", "Tr2", "Priv"} -> {"Translator"}
      [] i = "AbsAlg"           -> {"AbstractAlgorithm"}
      [] i = "ConcAlg"          -> {"ConcreteAlgorithm"}
      [] OTHER                  -> {}]

isinstance(obj, k) == obj \in Instances /\ k \in InstanceOf[obj]

\* val.__module__ of a class: the name of the module that declared it
DeclModule == [c \in Classes |->
    CASE c \in Bases \cup {"FooWrap", "Hidden", "Helper"} -> ModName["A"]
      [] c = "Foo"              -> ModName["AB"]
      [] c = "FooImpl"          -> ModName["AC"]
      [] c = "Other"            -> ModName["A2"]
      [] c = "Both"             -> ModName["G"]
      [] c = "Meta"             -> <<"g", ".", "m">>
      [] c = "Ext"              -> <<"e">>]

\* vars(module).items(), in insertion order
Members == [m \in Modules |->
    CASE m = "A" ->
            << <<<<"_", "p">>, "AP">>,
               <<<<"_", "H">>, "Hidden">>,
               <<<<"A">>, "AbstractType">>,
               <<<<"C">>, "ConcreteType">>,
               <<<<"W">>, "Wrapper">>,
               <<<<"F">>, "Foo">>,
               <<<<"V">>, "VERSION">>,
               <<<<"H">>, "Helper">>,
               <<<<"E">>, "Ext">>,
               <<<<"b">>, "AB">>,
               <<<<"c">>, "AC">>,
               <<<<"a", "2">>, "A2">>,
               <<<<"g">>, "G">>,
               <<<<"R">>, "FooWrap">> >>
      [] m = "AB" ->
            << <<<<"F">>, "Foo">>,
               <<<<"c">>, "AC">>,
               <<<<"t">>, "Tr">>,
               <<<<"_", "t">>, "Priv">>,
               <<<<"f">>, "AbsAlg">> >>
      [] m = "AC" ->
            << <<<<"b">>, "AB">>,
               <<<<"p">>, "A">>,
               <<<<"I">>, "FooImpl">>,
               <<<<"g">>, "ConcAlg">> >>
      [] m = "AP" ->
            << <<<<"P">>, "Priv">> >>
      [] m = "A2" ->
            << <<<<"O">>, "Other">>,
               <<<<"t">>, "Tr2">> >>
      [] m = "G" ->
            << <<<<"B">>, "Both">>,
               <<<<"M">>, "Meta">> >>]

----------------------------------------------------------------------------
(* Catalogs are Python sets; a set is kept as the multiplicity of each of  *)
(* its elements so that adding twice is told apart from adding once.       *)

EmptySet == [o \in {} |-> 0]

\* list.append(obj) in place of set.add(obj): a second add is counted
add_Append(s, obj) ==
    IF obj \in DOMAIN s THEN [s EXCEPT ![obj] = @ + 1] ELSE s @@ (obj :> 1)

\* set.add(obj)
add(s, obj) == IF obj \in DOMAIN s THEN s ELSE s @@ (obj :> 1)

\* PluginRegistry.__init__
NewPlugins == [c \in Catalogs |-> EmptySet]

\* obj in P[c]
In(P, c, obj) == obj \in DOMAIN P[c]

\* the catalog register adds obj to, or "unknown"
Classify(obj) ==
    IF TypeIsType(obj)
    THEN IF issubclass(obj, "AbstractType") THEN "abstract_types"
         ELSE IF issubclass(obj, "ConcreteType") THEN "concrete_types"
         ELSE IF issubclass(obj, "Wrapper") THEN "wrappers"
         ELSE "unknown"
    ELSE IF isinstance(obj, "Translator") THEN "translators"
         ELSE IF isinstance(obj, "AbstractAlgorithm") THEN "abstract_algorithms"
         ELSE IF isinstance(obj, "ConcreteAlgorithm") THEN "concrete_algorithms"
         ELSE "unknown"

\* register with each elif of lines 85-99 written as an independent if
register_EveryMatch(P, obj) ==
    LET cs == {CASE b = "AbstractType" -> "abstract_types"
                 [] b = "ConcreteType" -> "concrete_types"
                 [] b = "Wrapper" -> "wrappers"
                 [] b = "Translator" -> "translators"
                 [] b = "AbstractAlgorithm" -> "abstract_algorithms"
                 [] b = "ConcreteAlgorithm" -> "concrete_algorithms" :
               b \in {x \in Bases : TypeIsType(obj) /\ issubclass(obj, x)}
                     \cup {x \in Markers : ~TypeIsType(obj) /\ isinstance(obj, x)}}
    IN
    IF cs = {}
    THEN [plugins |-> P, raised |-> "PluginRegistryError", returned |-> "none"]
    ELSE [plugins |-> [c \in Catalogs |-> IF c \in cs THEN add(P[c], obj) ELSE P[c]],
          raised |-> "none", returned |-> obj]

\* PluginRegistry.register: the catalogs afterwards, and what the call did
register(P, obj) ==
    LET c == Classify(obj) IN
    IF c = "unknown"
    THEN [plugins |-> P, raised |-> "PluginRegistryError", returned |-> "none"]
    ELSE [plugins |-> [P EXCEPT ![c] = add(P[c], obj)],
          raised |-> "none", returned |-> obj]

----------------------------------------------------------------------------
(* register_from_modules                                                   *)

\* an argument of the call: an object, or a list/tuple of objects
Obj(o) == [kind |-> "obj", id |-> o, items |-> <<>>]
List(s) == [kind |-> "list", id |-> "list", items |-> s]

\* lines 118-119: a single list or tuple argument stands for its items
Unwrap(modules) ==
    IF Len(modules) = 1 /\ modules[1].kind = "list"
    THEN [i \in 1..Len(modules[1].items) |-> Obj(modules[1].items[i])]
    ELSE modules

\* only the first argument is examined before the scan starts
AllModules_FirstOnly(modules) ==
    modules = <<>> \/ (modules[1].kind = "obj" /\ ismodule(modules[1].id))

\* lines 120-124: every argument must be a module
AllModules(modules) ==
    \A i \in 1..Len(modules) : modules[i].kind = "obj" /\ ismodule(modules[i].id)

\* x.__name__.count(".")
Depth(m) == count(ModName[m], ".")

\* the stable insertion of m into a sequence sorted by Depth
RECURSIVE InsertByDepth(_, _)
InsertByDepth(sorted, m) ==
    IF sorted = <<>> THEN <<m>>
    ELSE IF Depth(Head(sorted)) <= Depth(m)
         THEN <<Head(sorted)>> \o InsertByDepth(Tail(sorted), m)
         ELSE <<m>> \o sorted

\* sorted(modules, key=lambda x: x.__name__.count(".")), a stable sort
RECURSIVE SortedByDepth(_)
SortedByDepth(ms) ==
    IF ms = <<>> THEN <<>>
    ELSE InsertByDepth(SortedByDepth(SubSeq(ms, 1, Len(ms) - 1)), ms[Len(ms)])

\* the filter without the issubclass test of line 133
TypeFilter_NoSubclassTest(val, base_name) ==
    /\ \/ DeclModule[val] = base_name
       \/ startswith(DeclModule[val], base_name \o <<".">>)
    /\ val \notin Bases

\* lines 132-139: the test a class must pass to be registered by a scan
TypeFilter(val, base_name) ==
    /\ \E b \in Bases : issubclass(val, b)
    /\ \/ DeclModule[val] = base_name
       \/ startswith(DeclModule[val], base_name \o <<".">>)
    /\ val \notin Bases

\* line 141: isinstance(val, (Translator, ConcreteAlgorithm, AbstractAlgorithm))
IsMarked(val) == \E k \in Markers : isinstance(val, k)

\* lines 146-151: the test a member module must pass to be entered
ModuleFilter(val, rec, base_name, seen) ==
    /\ rec
    /\ ismodule(val)
    /\ startswith(ModName[val], base_name)
    /\ val \notin seen

\* the loop body without the private-name test of lines 129-130
Branch_NoPrivateTest(key, val, rec, base_name, seen) ==
    IF IsClass(val) THEN "class"
    ELSE IF \E k \in Markers : isinstance(val, k) THEN "instance"
    ELSE IF /\ rec
            /\ ismodule(val)
            /\ startswith(ModName[val], base_name)
            /\ val \notin seen THEN "module"
    ELSE "other"

\* which branch of the loop body (lines 129-158) a member takes
Branch(key, val, rec, base_name, seen) ==
    IF startswith(key, <<"_">>) THEN "private"
    ELSE IF IsClass(val) THEN "class"
    ELSE IF IsMarked(val) THEN "instance"
    ELSE IF ModuleFilter(val, rec, base_name, seen) THEN "module"
    ELSE "other"

Frame(m, base_name) == [mod |-> m, idx |-> 1, base_name |-> base_name]

Top == stack[Len(stack)]
AtMember == pc = "scan" /\ stack # <<>> /\ Top.idx <= Len(Members[Top.mod])
Key == Members[Top.mod][Top.idx][1]
Val == Members[Top.mod][Top.idx][2]
TopBranch == Branch(Key, Val, recurse, Top.base_name, seen_modules)

\* the loop moves to the next member of the module being scanned
Advance == [stack EXCEPT ![Len(stack)].idx = @ + 1]

NoCall == [op |-> "none", arg |-> "none", args |-> <<>>, outcome |-> "none",
           returned |-> "none"]

Init ==
    /\ plugins = NewPlugins
    /\ pc = "idle"
    /\ queue = <<>>
    /\ recurse = TRUE
    /\ stack = <<>>
    /\ seen_modules = {}
    /\ entered = [m \in Modules |-> 0]
    /\ pre = NewPlugins
    /\ roots = <<>>
    /\ last = NoCall
    /\ calls = 0
    /\ pandas = "none"

\* the values register is called with
RegisterArgs == {"Foo", "FooImpl", "FooWrap", "Both", "Meta", "Helper",
                 "AbstractType", "Tr", "AbsAlg", "ConcAlg", "VERSION"}

\* the values register_from_modules is called with
ModuleArgs == {"A", "AB", "G", "Helper"}

ArgSeqs == UNION {[1..n -> ModuleArgs] : n \in 1..MaxRoots}

ArgTuples ==
    {[i \in 1..Len(s) |-> Obj(s[i])] : s \in ArgSeqs}
        \cup {<<List(<<"AB">>)>>, <<List(<<"A", "Helper">>)>>,
              <<List(<<"A">>), Obj("AB")>>}

\* registry.register(obj), lines 79-107
Register(obj) ==
    /\ pc = "idle"
    /\ calls < MaxCalls
    /\ LET r == register(plugins, obj) IN
        /\ plugins' = r.plugins
        /\ last' = [op |-> "register", arg |-> obj, args |-> <<>>,
                    outcome |-> IF r.raised = "none" THEN "returned" ELSE r.raised,
                    returned |-> r.returned]
    /\ pre' = plugins
    /\ calls' = calls + 1
    /\ UNCHANGED <<pc, queue, recurse, stack, seen_modules, entered, roots, pandas>>

\* registry.register_from_modules(*modules, recurse=rec): lines 118-124 and 160
CallRegisterFromModules(modules, rec) ==
    /\ pc = "idle"
    /\ calls < MaxCalls
    /\ calls' = calls + 1
    /\ pre' = plugins
    /\ recurse' = rec
    /\ seen_modules' = {}
    /\ entered' = [m \in Modules |-> 0]
    /\ stack' = <<>>
    /\ LET ms == Unwrap(modules) IN
        IF AllModules(ms)
        THEN /\ roots' = [i \in 1..Len(ms) |-> ms[i].id]
             /\ queue' = SortedByDepth(roots')
             /\ pc' = "scan"
             /\ last' = [op |-> "register_from_modules", arg |-> "none", args |-> modules,
                         outcome |-> "running", returned |-> "none"]
        ELSE /\ roots' = <<>>
             /\ queue' = <<>>
             /\ pc' = "idle"
             /\ last' = [op |-> "register_from_modules", arg |-> "none", args |-> modules,
                         outcome |-> "TypeError", returned |-> "none"]
    /\ UNCHANGED <<plugins, pandas>>

\* lines 161-168: the next root is marked seen and scanned under its own name
StartRoot ==
    /\ pc = "scan" /\ stack = <<>> /\ queue # <<>>
    /\ seen_modules' = seen_modules \cup {Head(queue)}
    /\ stack' = <<Frame(Head(queue), ModName[Head(queue)])>>
    /\ entered' = [entered EXCEPT ![Head(queue)] = @ + 1]
    /\ queue' = Tail(queue)
    /\ UNCHANGED <<plugins, pc, recurse, pre, roots, last, calls, pandas>>

\* lines 129-130: a member whose name begins with "_" is passed over
SkipPrivate ==
    /\ AtMember /\ TopBranch = "private"
    /\ stack' = Advance
    /\ UNCHANGED <<plugins, pc, queue, recurse, seen_modules, entered, pre,
                   roots, last, calls, pandas>>

\* self.register(val) inside the scan: an exception ends the whole call
ScanRegister ==
    LET r == register(plugins, Val) IN
    /\ plugins' = r.plugins
    /\ IF r.raised = "none"
       THEN /\ stack' = Advance
            /\ UNCHANGED <<pc, queue, last>>
       ELSE /\ stack' = <<>>
            /\ queue' = <<>>
            /\ pc' = "idle"
            /\ last' = [last EXCEPT !.outcome = r.raised]
    /\ UNCHANGED <<recurse, seen_modules, entered, pre, roots, calls, pandas>>

\* lines 131-140: a class that passes the filter is registered
ScanClass ==
    /\ AtMember /\ TopBranch = "class"
    /\ TypeFilter(Val, Top.base_name)
    /\ ScanRegister

\* lines 131-140: a class that fails the filter is passed over
SkipClass ==
    /\ AtMember /\ TopBranch = "class"
    /\ ~TypeFilter(Val, Top.base_name)
    /\ stack' = Advance
    /\ UNCHANGED <<plugins, pc, queue, recurse, seen_modules, entered, pre,
                   roots, last, calls, pandas>>

\* lines 141-145: a translator or algorithm is registered
ScanInstance ==
    /\ AtMember /\ TopBranch = "instance"
    /\ ScanRegister

\* lines 146-158: a member module is marked seen and scanned
EnterModule ==
    /\ AtMember /\ TopBranch = "module"
    /\ seen_modules' = seen_modules \cup {Val}
    /\ stack' = Append(Advance, Frame(Val, Top.base_name))
    /\ entered' = [entered EXCEPT ![Val] = @ + 1]
    /\ UNCHANGED <<plugins, pc, queue, recurse, pre, roots, last, calls, pandas>>

\* no branch of lines 129-158 applies: the member is passed over
SkipOther ==
    /\ AtMember /\ TopBranch = "other"
    /\ stack' = Advance
    /\ UNCHANGED <<plugins, pc, queue, recurse, seen_modules, entered, pre,
                   roots, last, calls, pandas>>

\* the for loop of line 128 is exhausted: _register_module returns
ReturnModule ==
    /\ pc = "scan" /\ stack # <<>> /\ Top.idx > Len(Members[Top.mod])
    /\ stack' = SubSeq(stack, 1, Len(stack) - 1)
    /\ UNCHANGED <<plugins, pc, queue, recurse, seen_modules, entered, pre,
                   roots, last, calls, pandas>>

\* the for loop of line 161 is exhausted: register_from_modules returns
ReturnCall ==
    /\ pc = "scan" /\ stack = <<>> /\ queue = <<>>
    /\ pc' = "idle"
    /\ last' = [last EXCEPT !.outcome = "returned"]
    /\ UNCHANGED <<plugins, queue, recurse, stack, seen_modules, entered, pre,
                   roots, calls, pandas>>

Next ==
    \/ \E obj \in RegisterArgs : Register(obj)
    \/ \E modules \in ArgTuples, rec \in BOOLEAN : CallRegisterFromModules(modules, rec)
    \/ StartRoot
    \/ SkipPrivate
    \/ ScanClass
    \/ SkipClass
    \/ ScanInstance
    \/ EnterModule
    \/ SkipOther
    \/ ReturnModule
    \/ ReturnCall

Spec == Init /\ [][Next]_vars

----------------------------------------------------------------------------
(* PandasEdgeMap.compute_abstract_properties                               *)

\* metagraph/types.py: DTYPE_CHOICES
DTYPE_CHOICES == {"str", "float", "int", "bool"}

\* metagraph/types.py: the names of EdgeMap.properties
EdgeMapProperties == {"is_directed", "dtype", "has_negative_weights"}

\* the names a caller may pass in props
PropNames == EdgeMapProperties \cup {"weights"}

\* a PandasEdgeMap: its is_directed flag, the simplified dtype of its weight
\* column and the sign of the least weight
EdgeMaps == [is_directed : BOOLEAN, dtype : DTYPE_CHOICES, min : {-1, 0, 1}]

\* cls._validate_abstract_props(props): every name must be a property of
\* the abstract type
validate_abstract_props(props) ==
    IF props \subseteq EdgeMapProperties THEN "none" ELSE "KeyError"

\* lines 114-128: the value stored under "weights", or the error raised
Weights(obj) ==
    IF obj.dtype = "bool" THEN [raised |-> "none", value |-> "non-negative"]
    ELSE IF obj.dtype = "str" THEN [raised |-> "TypeError", value |-> "none"]
    ELSE IF obj.min < 0 THEN [raised |-> "none", value |-> "any"]
    ELSE IF obj.min = 0 THEN [raised |-> "none", value |-> "non-negative"]
    ELSE [raised |-> "none", value |-> "positive"]

\* lines 101-130: the mapping returned, the error raised, and whether the
\* weight column was scanned (values.min())
compute_abstract_properties(obj, props) ==
    LET fast == ("is_directed" :> obj.is_directed) @@ ("dtype" :> obj.dtype) IN
    IF validate_abstract_props(props) # "none"
    THEN [ret |-> EmptySet, raised |-> validate_abstract_props(props), scanned |-> FALSE]
    ELSE IF "weights" \in props
    THEN IF Weights(obj).raised # "none"
         THEN [ret |-> EmptySet, raised |-> Weights(obj).raised, scanned |-> TRUE]
         ELSE [ret |-> fast @@ ("weights" :> Weights(obj).value),
               raised |-> "none", scanned |-> obj.dtype # "bool"]
    ELSE [ret |-> fast, raised |-> "none", scanned |-> FALSE]

InitProps ==
    /\ plugins = NewPlugins
    /\ pc = "idle"
    /\ queue = <<>>
    /\ recurse = TRUE
    /\ stack = <<>>
    /\ seen_modules = {}
    /\ entered = [m \in Modules |-> 0]
    /\ pre = NewPlugins
    /\ roots = <<>>
    /\ last = NoCall
    /\ calls = 0
    /\ \E obj \in EdgeMaps, props \in SUBSET PropNames :
          pandas = [phase |-> "call", obj |-> obj, props |-> props,
                    ret |-> EmptySet, raised |-> "none", scanned |-> FALSE]

\* PandasEdgeMap.Type.compute_abstract_properties(obj, props, {})
ComputeAbstractProperties ==
    /\ pandas.phase = "call"
    /\ LET r == compute_abstract_properties(pandas.obj, pandas.props) IN
        pandas' = [pandas EXCEPT !.phase = "done", !.ret = r.ret,
                                 !.raised = r.raised, !.scanned = r.scanned]
    /\ UNCHANGED <<plugins, pc, queue, recurse, stack, seen_modules, entered,
                   pre, roots, last, calls>>

NextProps == ComputeAbstractProperties

SpecProps == InitProps /\ [][NextProps]_vars

----------------------------------------------------------------------------
(* Vocabulary of the properties                                            *)

\* the catalog that answers to a type base or to a marker class
CatalogOf == [b \in Bases \cup Markers |->
    CASE b = "AbstractType"      -> "abstract_types"
      [] b = "ConcreteType"      -> "concrete_types"
      [] b = "Wrapper"           -> "wrappers"
      [] b = "Translator"        -> "translators"
      [] b = "AbstractAlgorithm" -> "abstract_algorithms"
      [] b = "ConcreteAlgorithm" -> "concrete_algorithms"]

\* the catalogs an object has the capability for
Capabilities(o) ==
    {CatalogOf[b] : b \in (IF o \in Classes THEN SuperBases[o]
                           ELSE IF o \in Instances THEN InstanceOf[o] ELSE {})}

TypeCatalogs == {"abstract_types", "concrete_types", "wrappers"}

Registered(P, o) == \E c \in Catalogs : In(P, c, o)

Private(key) == key # <<>> /\ Head(key) = "_"

InBulkCall == last.op = "register_from_modules"

RECURSIVE Split(_, _)
Split(s, cur) ==
    IF s = <<>> THEN <<cur>>
    ELSE IF Head(s) = "." THEN <<cur>> \o Split(Tail(s), <<>>)
    ELSE Split(Tail(s), Append(cur, Head(s)))

\* a dotted name as its sequence of segments
Segments(name) == Split(name, <<>>)

\* name is root, or root extended by further dot-separated segments
IsUnder(name, root) ==
    LET n == Segments(name)
        r == Segments(root)
    IN Len(r) <= Len(n) /\ SubSeq(n, 1, Len(r)) = r

RootSet == {roots[i] : i \in 1..Len(roots)}

\* no module was passed twice to the bulk call
DistinctRoots == Cardinality(RootSet) = Len(roots)

----------------------------------------------------------------------------
(* C1: every object held by the registry is in exactly one catalog, and    *)
(* that catalog answers to a capability the object has (for an object with *)
(* a single capability: the catalog of that capability); an object that    *)
(* register accepted is held.  The six catalogs are pairwise disjoint.     *)
C1_ExactlyOneMatchingCatalog ==
    /\ \A o \in Objects, c \in Catalogs :
          In(plugins, c, o) =>
              /\ c \in Capabilities(o)
              /\ \A d \in Catalogs \ {c} : ~In(plugins, d, o)
    /\ (last.op = "register" /\ last.outcome = "returned")
          => Registered(plugins, last.arg)

\* all six catalogs are populated, and a class with two bases is held
C1_Witness ==
    /\ \A c \in Catalogs : \E o \in Objects : In(plugins, c, o)
    /\ In(plugins, "abstract_types", "Both")

----------------------------------------------------------------------------
(* C2: in a recursive call with several roots the roots are taken          *)
(* shallowest first and no root is scanned more than once in the call: a   *)
(* root already scanned during a shallower root's traversal is not scanned *)
(* again when its own turn comes.                                          *)
C2_RootScannedOnce ==
    (InBulkCall /\ recurse /\ DistinctRoots) =>
        /\ \A i, j \in 1..Len(queue) : i < j => Depth(queue[i]) <= Depth(queue[j])
        /\ \A m \in RootSet : entered[m] <= 1

----------------------------------------------------------------------------
\* the members of the modules scanned in this call that a scan is to register
Qualifies(val, base_name) ==
    \/ /\ val \in Instances
       /\ InstanceOf[val] # {}
    \/ /\ val \in Classes
       /\ SuperBases[val] # {}
       /\ val \notin Bases
       /\ IsUnder(DeclModule[val], base_name)

\* the bindings <<name, value>> of a module
Bindings(m) == {Members[m][i] : i \in 1..Len(Members[m])}

QualifyingMembers ==
    {v \in Classes \cup Instances :
        \E m \in Modules : \E b \in Bindings(m) :
            /\ entered[m] > 0
            /\ b[2] = v
            /\ ~Private(b[1])
            /\ \E r \in RootSet : Qualifies(v, ModName[r])}

\* every qualifying member is held exactly once by a catalog it belongs to
AllQualifyingRegisteredOnce ==
    \A v \in QualifyingMembers :
        \E c \in Capabilities(v) : In(plugins, c, v) /\ plugins[c][v] = 1

(* C3: a recursive call, also over modules that refer to each other,       *)
(* enters each module at most once, and when it has returned every         *)
(* qualifying member of the modules it entered is registered exactly once. *)
C3_CycleSafe ==
    (InBulkCall /\ recurse /\ DistinctRoots) =>
        /\ \A m \in Modules : entered[m] <= 1
        /\ (pc = "idle" /\ last.outcome = "returned") => AllQualifyingRegisteredOnce

----------------------------------------------------------------------------
\* some argument of the last bulk call is not a module
Malformed ==
    LET ms == Unwrap(last.args) IN
    \E i \in 1..Len(ms) : ms[i].kind # "obj" \/ ms[i].id \notin Modules

(* C4: a bulk call with an argument that is not a module fails with        *)
(* TypeError, wherever that argument stands, before anything is scanned,   *)
(* and leaves the six catalogs as they were.                               *)
C4_ValidatesFirst ==
    (InBulkCall /\ Malformed) =>
        /\ last.outcome = "TypeError"
        /\ pc = "idle"
        /\ plugins = pre
        /\ \A m \in Modules : entered[m] = 0

\* a call whose last argument is malformed failed on a populated registry
C4_Witness ==
    /\ InBulkCall
    /\ last.args = <<Obj("A"), Obj("Helper")>>
    /\ last.outcome = "TypeError"
    /\ In(plugins, "abstract_types", "Foo")

----------------------------------------------------------------------------
\* the scan is at a public member that is no module and has no capability
AtUnclassifiable ==
    /\ AtMember
    /\ ~Private(Key)
    /\ Val \notin Modules
    /\ Capabilities(Val) = {}

(* C5 as stated: a member that is neither private nor classifiable aborts  *)
(* the whole call with an error.                                           *)
C5_UnclassifiableAborts ==
    [][AtUnclassifiable => (pc' = "idle" /\ last'.outcome = "PluginRegistryError")]_vars

(* C5 as amended: a member that is neither private, nor a module, nor      *)
(* classifiable is passed over: nothing is registered for it, no error is  *)
(* raised and the scan goes on with the next member.                       *)
C5_UnclassifiableSkipped ==
    [][AtUnclassifiable =>
        (plugins' = plugins /\ stack' = Advance /\ pc' = "scan" /\ last' = last)]_vars

\* the scan has just passed such a member and is still running
C5_Witness ==
    /\ pc = "scan" /\ stack # <<>> /\ last.outcome = "running"
    /\ Top.idx > 1
    /\ LET prev == Members[Top.mod][Top.idx - 1] IN
        /\ ~Private(prev[1])
        /\ prev[2] \in {"Helper", "VERSION"}
        /\ Capabilities(prev[2]) = {}

----------------------------------------------------------------------------
\* the number of type catalogs entries held for a class
TypeCount(P, v) ==
    Cardinality({c \in TypeCatalogs : In(P, c, v)})

(* C6: a scan adds a class to a type catalog only if it extends one of the *)
(* three bases, is none of the three bases and was declared in the root or *)
(* in a module nested under it; and a class that meets the three           *)
(* conditions and is bound under a public name (declared in the module or  *)
(* re-exported into it) is registered, once, when that member is scanned.  *)
C6_OwnedTypesOnly ==
    [][(AtMember /\ IsClass(Val)) =>
        /\ plugins' # plugins => Qualifies(Val, Top.base_name)
        /\ (Qualifies(Val, Top.base_name) /\ ~Private(Key)) =>
              /\ TypeCount(plugins', Val) = 1
              /\ \A c \in TypeCatalogs : In(plugins', c, Val) => plugins'[c][Val] = 1]_vars

----------------------------------------------------------------------------
RECURSIVE PublicClosure(_)
\* the modules that can be reached from S through public names only
PublicClosure(S) ==
    LET T == S \cup {v \in Modules :
                       \E m \in S : \E b \in Bindings(m) : ~Private(b[1]) /\ b[2] = v}
    IN IF T = S THEN S ELSE PublicClosure(T)

\* o is bound under a public name in a module reachable through public names
PubliclyBound(o, S) ==
    \E m \in PublicClosure(S) : \E b \in Bindings(m) : ~Private(b[1]) /\ b[2] = o

(* C7: an object that the modules of a bulk call bind only under private   *)
(* names, or only inside privately named modules, and that no catalog held *)
(* before the call, is held by no catalog during or after the call.        *)
C7_PrivateNeverRegistered ==
    InBulkCall =>
        \A o \in Objects :
            (Registered(plugins, o) /\ ~Registered(pre, o)) => PubliclyBound(o, RootSet)

\* a recursive scan of the root returned; the privately bound objects are absent
C7_Witness ==
    /\ InBulkCall /\ recurse /\ last.outcome = "returned"
    /\ "A" \in RootSet
    /\ entered["AB"] > 0
    /\ In(plugins, "abstract_types", "Foo")
    /\ ~Registered(plugins, "Hidden") /\ ~Registered(plugins, "Priv")
    /\ ~PubliclyBound("Hidden", RootSet) /\ ~PubliclyBound("Priv", RootSet)

----------------------------------------------------------------------------
\* this step registers o: a call of register, or a scan reaching o
Registers(o) ==
    \/ pc = "idle" /\ calls' = calls + 1 /\ last'.op = "register" /\ last'.arg = o
    \/ AtMember /\ Val = o /\ TopBranch \in {"class", "instance"}

(* C8: registering an object that its catalog already holds, by register   *)
(* or by a scan that reaches it, changes no catalog; every object held is  *)
(* held once.                                                              *)
C8_Idempotent ==
    [][/\ \A o \in Objects :
            (Registers(o) /\ Registered(plugins, o)) => plugins' = plugins
       /\ \A c \in Catalogs : \A o \in DOMAIN plugins'[c] : plugins'[c][o] = 1]_vars

\* register was called on a class that a scan had registered already
C8_Witness ==
    /\ last.op = "register" /\ last.arg = "Foo" /\ last.outcome = "returned"
    /\ In(pre, "abstract_types", "Foo")
    /\ plugins = pre
    /\ plugins["abstract_types"]["Foo"] = 1

----------------------------------------------------------------------------
(* C9: register fails with PluginRegistryError, leaving the catalogs as    *)
(* they were, when the object extends none of the three bases and carries  *)
(* none of the three markers; otherwise it returns the object it was given.*)
C9_RegisterTotal ==
    last.op = "register" =>
        IF Capabilities(last.arg) = {}
        THEN last.outcome = "PluginRegistryError" /\ plugins = pre
        ELSE last.outcome = "returned" /\ last.returned = last.arg

----------------------------------------------------------------------------
(* C10: for every non-empty set of properties declared on EdgeMap passed   *)
(* as props, compute_abstract_properties returns a mapping with a key for  *)
(* each requested property, and scans the weights only when the slow       *)
(* property has_negative_weights is requested.                             *)
C10_EveryRequestedProperty ==
    (/\ pandas.phase = "done"
     /\ pandas.props # {}
     /\ pandas.props \subseteq EdgeMapProperties) =>
        /\ pandas.raised = "none"
        /\ pandas.props \subseteq DOMAIN pandas.ret
        /\ pandas.scanned => "has_negative_weights" \in pandas.props

----------------------------------------------------------------------------
\* the step enters a member module: _register_module is invoked from the loop
EntersMember == AtMember /\ Len(stack') > Len(stack)

(* C11: a scan enters a member module only if recurse is set, the module   *)
(* has not been visited in this call and its name is the root's name       *)
(* extended by further dot-separated segments; a module outside the root's *)
(* subtree whose name only begins with the root's name as a string is not  *)
(* entered, and no member of such a module is registered by the scan.      *)
C11_EntersNestedOnly ==
    [][/\ EntersMember =>
            /\ recurse
            /\ Val \notin seen_modules
            /\ IsUnder(ModName[Val], Top.base_name)
            /\ ModName[Val] # Top.base_name
       /\ (AtMember /\ ~IsUnder(ModName[Top.mod], Top.base_name)) =>
            plugins' = plugins]_vars

====
